---- MODULE Spec2Model ----
(***************************************************************************)
(* Summit Resolutions: the goal store of the single-page application.      *)
(* The state is the React state of Home (goals, isLoaded), the value held  *)
(* in localStorage under STORAGE_KEY, the pending effects and queued       *)
(* state updates of the component, and the calendar day.                   *)
(***************************************************************************)
EXTENDS Integers, Sequences, FiniteSets, TLC

(***************************************************************************)
(* Bounds of the model.                                                    *)
(***************************************************************************)
MaxCreates == 2
MaxCount == 1
MaxDay == 1
MaxQueue == 2
MaxClicks == 200
MaxGoals == 40

(***************************************************************************)
(* JavaScript values of the optional fields.  A field holds a tagged       *)
(* value; reading a key an object does not have yields undefined.          *)
(***************************************************************************)
Undefined == [t |-> "undefined"]
Null == [t |-> "null"]
NaN == [t |-> "NaN"]
Infinity == [t |-> "Infinity"]
Num(n) == [t |-> "number", v |-> n]
Str(s) == [t |-> "string", v |-> s]

Field(obj, k) == IF k \in DOMAIN obj THEN obj[k] ELSE Undefined

\* JavaScript truthiness of a value read from targetCount / target.
Truthy(v) ==
  CASE v.t = "number" -> v.v # 0
    [] v.t = "Infinity" -> TRUE
    [] v.t = "string" -> v.v # <<>>
    [] OTHER -> FALSE

(***************************************************************************)
(* Text: a string is a sequence of one-character strings.                  *)
(***************************************************************************)
Digits == <<"0", "1", "2", "3", "4", "5", "6", "7", "8", "9">>
IsDigit(c) == \E i \in 1..10 : Digits[i] = c
DigitValue(c) == (CHOOSE i \in 1..10 : Digits[i] = c) - 1
IsSpace(c) == c = " "

RECURSIVE trimStart(_)
trimStart(s) ==
  IF s # <<>> /\ IsSpace(Head(s)) THEN trimStart(Tail(s)) ELSE s

RECURSIVE trimEnd(_)
trimEnd(s) ==
  IF s # <<>> /\ IsSpace(s[Len(s)]) THEN trimEnd(SubSeq(s, 1, Len(s) - 1)) ELSE s

\* String.prototype.trim
trim(s) == trimEnd(trimStart(s))

\* String(value) of a non-negative integer
RECURSIVE ToDigits(_)
ToDigits(n) ==
  IF n < 10 THEN <<Digits[n + 1]>> ELSE Append(ToDigits(n \div 10), Digits[(n % 10) + 1])

\* const pad = (value) => String(value).padStart(2, "0")
pad(value) ==
  LET s == ToDigits(value)
  IN IF Len(s) < 2 THEN <<"0">> \o s ELSE s

(***************************************************************************)
(* Number.parseInt(text, 10): leading white space is skipped, an optional  *)
(* sign is read, then the longest prefix of decimal digits; no digit gives *)
(* NaN.  A digit string whose value exceeds the largest double gives       *)
(* Infinity: every integer of more than MaxDoubleDigits significant digits *)
(* does.  Values are computed exactly up to ExactDigits digits; the texts  *)
(* enumerated below have at most that many, or more than MaxDoubleDigits.  *)
(***************************************************************************)
MaxDoubleDigits == 309
ExactDigits == 9

DigitPrefixLen(s) ==
  IF \A i \in 1..Len(s) : IsDigit(s[i]) THEN Len(s)
  ELSE (CHOOSE i \in 1..Len(s) : ~IsDigit(s[i]) /\ \A j \in 1..(i - 1) : IsDigit(s[j])) - 1

RECURSIVE stripZeros(_)
stripZeros(s) == IF s # <<>> /\ Head(s) = "0" THEN stripZeros(Tail(s)) ELSE s

RECURSIVE DigitsValue(_)
DigitsValue(s) ==
  IF s = <<>> THEN 0 ELSE 10 * DigitsValue(SubSeq(s, 1, Len(s) - 1)) + DigitValue(s[Len(s)])

parseInt(text) ==
  LET s == trimStart(text)
      neg == s # <<>> /\ Head(s) = "-"
      body == IF s # <<>> /\ (Head(s) = "-" \/ Head(s) = "+") THEN Tail(s) ELSE s
      n == DigitPrefixLen(body)
      sig == stripZeros(SubSeq(body, 1, n))
  IN IF n = 0 THEN NaN
     ELSE IF Len(sig) > MaxDoubleDigits THEN Infinity
     ELSE IF Len(sig) > ExactDigits THEN [t |-> "large"]
     ELSE Num(IF neg THEN 0 - DigitsValue(sig) ELSE DigitsValue(sig))

(***************************************************************************)
(* The calendar: day n of the run, counted from BaseDate, the last day of   *)
(* a month, so that the first midnight changes the day and the month.      *)
(***************************************************************************)
BaseDate == [year |-> 2026, month |-> 0, date |-> 31]
DaysInMonth(month) == IF month = 1 THEN 28 ELSE 31

\* new Date() on day n: getFullYear(), getMonth() (0-based), getDate()
RECURSIVE DateOf(_)
DateOf(n) ==
  IF n = 0 THEN BaseDate
  ELSE LET d == DateOf(n - 1)
       IN IF d.date < DaysInMonth(d.month)
          THEN [d EXCEPT !.date = d.date + 1]
          ELSE [d EXCEPT !.month = d.month + 1, !.date = 1]

formatDateKey(date) ==
  ToDigits(date.year) \o <<"-">> \o pad(date.month + 1) \o <<"-">> \o pad(date.date)

formatMonthKey(date) ==
  ToDigits(date.year) \o <<"-">> \o pad(date.month + 1)

AllKey == <<"a", "l", "l">>

getPeriodKey(type, date) ==
  IF type = "daily" THEN formatDateKey(date)
  ELSE IF type = "monthly" THEN formatMonthKey(date)
  ELSE AllKey

(***************************************************************************)
(* IEEE-754 doubles, as far as (count / target) * 100 needs them.  A       *)
(* positive double is 2^top * (1 + F / 2^52): top is the exponent and F    *)
(* the 52 fraction bits, kept as FractionLimbs digits of LimbBits bits,    *)
(* most significant first.  Counts and targets are below 2^18.             *)
(***************************************************************************)
LimbBits == 13
FractionLimbs == 4

RECURSIVE Pow2(_)
Pow2(n) == IF n = 0 THEN 1 ELSE 2 * Pow2(n - 1)

LimbBase == Pow2(LimbBits)

\* n further base-LimbBase digits of r / d (r < d), and what remains.
RECURSIVE DivDigits(_, _, _)
DivDigits(r, d, n) ==
  IF n = 0 THEN [digits |-> <<>>, rem |-> r]
  ELSE LET digit == (r * LimbBase) \div d
           rest == DivDigits((r * LimbBase) % d, d, n - 1)
       IN [digits |-> <<digit>> \o rest.digits, rem |-> rest.rem]

\* limbs + 1; the carry out of the first limb is kept.
RECURSIVE Increment(_)
Increment(limbs) ==
  IF limbs = <<>> THEN [limbs |-> <<>>, carry |-> 1]
  ELSE LET low == limbs[Len(limbs)]
           high == SubSeq(limbs, 1, Len(limbs) - 1)
       IN IF low + 1 < LimbBase THEN [limbs |-> Append(high, low + 1), carry |-> 0]
          ELSE LET r == Increment(high)
               IN [limbs |-> Append(r.limbs, 0), carry |-> r.carry]

\* Round to nearest, ties to even: guard is the first bit dropped, sticky says
\* that a later one is set.
RoundToDouble(top, limbs, guard, sticky) ==
  LET up == guard = 1 /\ (sticky \/ limbs[FractionLimbs] % 2 = 1)
      inc == Increment(limbs)
  IN IF ~up THEN [top |-> top, limbs |-> limbs]
     ELSE IF inc.carry = 1 THEN [top |-> top + 1, limbs |-> inc.limbs]
     ELSE [top |-> top, limbs |-> inc.limbs]

RECURSIVE Log2Floor(_)
Log2Floor(n) == IF n < 2 THEN 0 ELSE 1 + Log2Floor(n \div 2)

RECURSIVE ShiftUntil(_, _)
ShiftUntil(c, t) == IF c >= t THEN 0 ELSE 1 + ShiftUntil(2 * c, t)

\* c / t for integers c, t >= 1
DoubleDivide(c, t) ==
  LET top == IF c >= t THEN Log2Floor(c \div t) ELSE 0 - ShiftUntil(c, t)
      n0 == IF top >= 0 THEN c ELSE c * Pow2(0 - top)
      d0 == IF top >= 0 THEN t * Pow2(top) ELSE t
      q == DivDigits(n0 - d0, d0, FractionLimbs)
      guard == IF 2 * q.rem >= d0 THEN 1 ELSE 0
      sticky == 2 * q.rem - guard * d0 # 0
  IN RoundToDouble(top, q.digits, guard, sticky)

\* k * limbs + carry for a small k: the product's limbs, the carry out in head.
RECURSIVE MulLimbs(_, _, _)
MulLimbs(limbs, k, carry) ==
  IF limbs = <<>> THEN [head |-> carry, limbs |-> <<>>]
  ELSE LET acc == limbs[Len(limbs)] * k + carry
           rest == MulLimbs(SubSeq(limbs, 1, Len(limbs) - 1), k, acc \div LimbBase)
       IN [head |-> rest.head, limbs |-> Append(rest.limbs, acc % LimbBase)]

\* limbs shifted right by g bits (g < LimbBits), in coming in from the left.
RECURSIVE ShiftRight(_, _, _)
ShiftRight(limbs, g, in) ==
  IF limbs = <<>> THEN <<>>
  ELSE <<(Head(limbs) \div Pow2(g)) + in * Pow2(LimbBits - g)>>
       \o ShiftRight(Tail(limbs), g, Head(limbs) % Pow2(g))

\* x * k for a double x > 0 and an integer k >= 2: the exact product is
\* (k + carry) * 2^52 + limbs, which has g bits too many.
DoubleTimes(x, k) ==
  LET p == MulLimbs(x.limbs, k, 0)
      head == k + p.head
      g == Log2Floor(head)
      lost == p.limbs[FractionLimbs] % Pow2(g)
      guard == lost \div Pow2(g - 1)
      sticky == lost % Pow2(g - 1) # 0
  IN RoundToDouble(x.top + g, ShiftRight(p.limbs, g, head - Pow2(g)), guard, sticky)

\* Bit j of the 53-bit significand of x, bit 0 the least significant.
BitAt(x, j) ==
  IF j = LimbBits * FractionLimbs THEN 1
  ELSE (x.limbs[FractionLimbs - (j \div LimbBits)] \div Pow2(j % LimbBits)) % 2

\* The integer made of bits 52 down to j.
RECURSIVE BitsFrom(_, _)
BitsFrom(x, j) ==
  IF j > LimbBits * FractionLimbs THEN 0 ELSE BitAt(x, j) + 2 * BitsFrom(x, j + 1)

\* Math.round of the double x > 0 (negative = FALSE) or of -x (negative = TRUE):
\* the nearest integer, a tie going to the larger one.
MathRound(x, negative) ==
  LET shift == LimbBits * FractionLimbs - x.top
      whole == BitsFrom(x, shift)
      half == IF x.top < -1 THEN 0 ELSE BitAt(x, shift - 1)
      more == x.top < -1 \/ \E j \in 0..(shift - 2) : BitAt(x, j) = 1
  IN IF ~negative THEN whole + half
     ELSE 0 - (whole + (IF half = 1 /\ more THEN 1 ELSE 0))

\* Math.round((count / target) * 100) for integers count >= 0, target # 0
RoundedPercent(count, target) ==
  IF count = 0 THEN 0
  ELSE LET t == IF target < 0 THEN 0 - target ELSE target
       IN MathRound(DoubleTimes(DoubleDivide(count, t), 100), target < 0)

(***************************************************************************)
(* Goals.  A goal in memory is an object: a function from the keys it has  *)
(* to their values.  handleSubmit builds objects with all eight keys;      *)
(* JSON.parse builds objects with the keys the text holds.                 *)
(***************************************************************************)
GoalKeys == {"id", "title", "type", "notes", "targetCount", "dueDate", "createdAt", "entries"}
OptionalKeys == {"targetCount", "dueDate"}

\* getTargetForGoal with the default 1 for every type
getTargetForGoalAlwaysOne(goal) ==
  IF Truthy(Field(goal, "targetCount")) THEN Field(goal, "targetCount")
  ELSE Num(1)

getTargetForGoal(goal) ==
  IF Truthy(Field(goal, "targetCount")) THEN Field(goal, "targetCount")
  ELSE IF goal.type = "anytime" THEN Undefined
  ELSE Num(1)

getCountForPeriod(goal, periodKey) ==
  IF periodKey \in DOMAIN goal.entries THEN goal.entries[periodKey] ELSE 0

\* count >= target for a number count and a truthy target
AtLeast(count, target) ==
  IF target.t = "number" THEN count >= target.v ELSE FALSE

isGoalComplete(goal, periodKey) ==
  LET target == getTargetForGoal(goal)
      count == getCountForPeriod(goal, periodKey)
  IN IF Truthy(target) THEN AtLeast(count, target) ELSE count > 0

Min(a, b) == IF a <= b THEN a ELSE b
Max(a, b) == IF a >= b THEN a ELSE b

\* GoalCard: progress = target ? Math.min(100, Math.round((count / target) * 100)) : 0
progress(goal, periodKey) ==
  LET count == getCountForPeriod(goal, periodKey)
      target == getTargetForGoal(goal)
  IN IF ~Truthy(target) THEN 0
     ELSE IF target.t = "number" THEN Min(100, RoundedPercent(count, target.v))
     ELSE 0

\* GoalCard: what it renders under the count, {target ? ...{progress}% of target... : null}
ProgressBar(goal, periodKey) ==
  IF Truthy(getTargetForGoal(goal)) THEN Num(progress(goal, periodKey)) ELSE Null

(***************************************************************************)
(* JSON.  A JSON text is kept as the document it denotes: "invalid" for a  *)
(* text that is no JSON, "empty" for the empty string, "object" for an     *)
(* object, "array" with its items.  JSON.stringify leaves out the keys     *)
(* whose value is undefined and writes a number that is not finite as      *)
(* null.                                                                   *)
(***************************************************************************)
JSONValue(v) == IF v.t \in {"Infinity", "NaN"} THEN Null ELSE v

StringifyGoal(goal) ==
  LET kept == {k \in DOMAIN goal : ~(k \in OptionalKeys /\ goal[k] = Undefined)}
  IN [k \in kept |-> IF k \in OptionalKeys THEN JSONValue(goal[k]) ELSE goal[k]]

JSONstringify(list) ==
  [t |-> "array", items |-> [i \in 1..Len(list) |-> StringifyGoal(list[i])]]

\* JSON.parse: throws on a text that is no JSON (the empty string is none).
JSONparse(doc) ==
  IF doc.t \in {"invalid", "empty"} THEN [threw |-> TRUE]
  ELSE IF doc.t = "array" THEN [threw |-> FALSE, value |-> [t |-> "array", items |-> doc.items]]
  ELSE [threw |-> FALSE, value |-> [t |-> doc.t]]

ArrayIsArray(value) == value.t = "array"

\* localStorage.getItem: null when the key is absent, else the string.
NoItem == [t |-> "null"]
Item(doc) == [t |-> "string", doc |-> doc]
StoredTruthy(stored) == stored.t = "string" /\ stored.doc.t # "empty"

(***************************************************************************)
(* The form.  handleSubmit reads the form state, which the user's typing   *)
(* has set and which every submit resets to emptyForm: the form's content  *)
(* is the input of the submit.                                             *)
(***************************************************************************)
Run == <<" ", "r", "u", "n", " ">>
DueText == <<"2", "0", "2", "6", "-", "1", "2", "-", "3", "1">>
HugeText == [i \in 1..(MaxDoubleDigits + 1) |-> "9"]

Form(title, type, targetCount, dueDate) ==
  [title |-> title, type |-> type, notes |-> <<" ", "n">>,
   targetCount |-> targetCount, dueDate |-> dueDate]

FormInputs ==
  { Form(<<>>, "daily", <<"2">>, <<>>),
    Form(<<" ", " ">>, "anytime", <<>>, DueText),
    Form(Run, "daily", <<"2">>, <<>>),
    Form(Run, "monthly", <<"a", "b", "c">>, DueText),
    Form(Run, "anytime", <<"0">>, <<>>),
    Form(Run, "monthly", <<>>, <<>>),
    Form(Run, "anytime", <<"-", "3">>, <<>>),
    Form(Run, "daily", HugeText, <<>>) }

\* handleSubmit: the goal built from the form
NextGoal(form, id, date) ==
  LET targetCount == IF form.targetCount # <<>> THEN parseInt(form.targetCount) ELSE Undefined
  IN [id |-> id,
      title |-> trim(form.title),
      type |-> form.type,
      notes |-> trim(form.notes),
      targetCount |-> IF targetCount = NaN \/ targetCount = Num(0) THEN Undefined ELSE targetCount,
      dueDate |-> IF form.dueDate # <<>> THEN Str(form.dueDate) ELSE Undefined,
      createdAt |-> formatDateKey(date),
      entries |-> <<>>]

(***************************************************************************)
(* The state updates the handlers and the load effect pass to setGoals,    *)
(* as data: React queues them and runs them when it renders.               *)
(***************************************************************************)
SetTo(list) == [op |-> "set", value |-> list]
Prepend(goal) == [op |-> "prepend", goal |-> goal]
Count(goalId, delta) == [op |-> "count", id |-> goalId, delta |-> delta]
Remove(goalId) == [op |-> "remove", id |-> goalId]

\* updateGoalCount without Math.max(0, ...)
CountUpdaterUnclamped(current, goalId, delta, date) ==
  [i \in 1..Len(current) |->
     LET goal == current[i]
         periodKey == getPeriodKey(goal.type, date)
         nextCount == getCountForPeriod(goal, periodKey) + delta
     IN IF goal.id # goalId THEN goal
        ELSE [goal EXCEPT !.entries = (periodKey :> nextCount) @@ goal.entries]]

\* updateGoalCount without the test of goal.id
CountUpdaterEveryGoal(current, goalId, delta, date) ==
  [i \in 1..Len(current) |->
     LET goal == current[i]
         periodKey == getPeriodKey(goal.type, date)
         nextCount == Max(0, getCountForPeriod(goal, periodKey) + delta)
     IN [goal EXCEPT !.entries = (periodKey :> nextCount) @@ goal.entries]]

\* updateGoalCount: the updater, run on day `date`
CountUpdater(current, goalId, delta, date) ==
  [i \in 1..Len(current) |->
     LET goal == current[i]
         periodKey == getPeriodKey(goal.type, date)
         currentCount == getCountForPeriod(goal, periodKey)
         nextCount == Max(0, currentCount + delta)
     IN IF goal.id # goalId THEN goal
        ELSE [goal EXCEPT !.entries = (periodKey :> nextCount) @@ goal.entries]]

\* deleteGoal with the filter's test inverted
RemoveUpdaterInverted(current, goalId) ==
  SelectSeq(current, LAMBDA goal : goal.id = goalId)

\* deleteGoal: the updater
RECURSIVE RemoveUpdater(_, _)
RemoveUpdater(current, goalId) ==
  IF current = <<>> THEN <<>>
  ELSE IF Head(current).id # goalId
       THEN <<Head(current)>> \o RemoveUpdater(Tail(current), goalId)
       ELSE RemoveUpdater(Tail(current), goalId)

\* handleSubmit appending the goal instead
AppendUpdater(current, goal) == current \o <<goal>>

\* handleSubmit: the updater
PrependUpdater(current, goal) == <<goal>> \o current

Apply(u, current, date) ==
  CASE u.op = "set" -> u.value
    [] u.op = "prepend" -> PrependUpdater(current, u.goal)
    [] u.op = "count" -> CountUpdater(current, u.id, u.delta, date)
    [] u.op = "remove" -> RemoveUpdater(current, u.id)

RECURSIVE ApplyAll(_, _, _)
ApplyAll(queue, state, date) ==
  IF queue = <<>> THEN state
  ELSE ApplyAll(Tail(queue), Apply(Head(queue), state, date), date)

(***************************************************************************)
(* The two effects of Home.                                                *)
(***************************************************************************)
\* The load effect without try and catch: a text that is no JSON ends it.
LoadEffectNoCatch(stored) ==
  LET parsed == JSONparse(stored.doc)
      threw == StoredTruthy(stored) /\ parsed.threw
      accepted == StoredTruthy(stored) /\ ~parsed.threw /\ ArrayIsArray(parsed.value)
  IN [setGoals |-> IF accepted THEN <<SetTo(parsed.value.items)>> ELSE <<>>,
      setIsLoaded |-> IF threw THEN <<>> ELSE <<TRUE>>]

\* The load effect: the updates it queues.
LoadEffect(stored) ==
  LET parsed == JSONparse(stored.doc)
      accepted == StoredTruthy(stored) /\ ~parsed.threw /\ ArrayIsArray(parsed.value)
  IN [setGoals |-> IF accepted THEN <<SetTo(parsed.value.items)>> ELSE <<>>,
      setIsLoaded |-> <<TRUE>>]

\* The persist effect without the test of isLoaded
PersistEffectUnguarded(list, loaded, stored) == Item(JSONstringify(list))

\* The persist effect, with the goals and isLoaded of the render that scheduled
\* it: the value localStorage holds afterwards.
PersistEffect(list, loaded, stored) ==
  IF ~loaded THEN stored ELSE Item(JSONstringify(list))

(***************************************************************************)
(* State.                                                                  *)
(*   goals, isLoaded   the state of Home as of the last render             *)
(*   dailyKey, monthlyKey   the period keys memoized by the first render   *)
(*   storage           localStorage's value under STORAGE_KEY              *)
(*   effects           the effects of the last render that have not run    *)
(*   goalsQueue, isLoadedQueue   the updates the load effect queued, and   *)
(*                     those queued behind them, not yet rendered          *)
(*   baseState         the goals the queued updates apply to               *)
(*   now               the calendar day                                    *)
(*   nextId            the ids crypto.randomUUID has given out             *)
(*   stored0           what storage held when the page was opened          *)
(*   deleted           the ids deleteGoal has removed                      *)
(*   lastOp            the last operation of the user                      *)
(***************************************************************************)
VARIABLES goals, isLoaded, dailyKey, monthlyKey, storage, effects,
          goalsQueue, isLoadedQueue, baseState, now, nextId,
          stored0, deleted, lastOp

vars == <<goals, isLoaded, dailyKey, monthlyKey, storage, effects,
          goalsQueue, isLoadedQueue, baseState, now, nextId,
          stored0, deleted, lastOp>>

\* A goal as an earlier session wrote it: a monthly goal checked in once this
\* month, without a due date.
StoredGoal ==
  [id |-> 100, title |-> <<"r", "e", "a", "d">>, type |-> "monthly", notes |-> <<>>,
   targetCount |-> Num(2), createdAt |-> formatDateKey(BaseDate),
   entries |-> (formatMonthKey(BaseDate) :> 1)]

InitialStorage ==
  { NoItem,
    Item([t |-> "invalid"]),
    Item([t |-> "object"]),
    Item([t |-> "array", items |-> <<StoredGoal>>]) }

\* The first render of Home has committed; its effects are pending.
Init ==
  /\ goals = <<>>
  /\ isLoaded = FALSE
  /\ dailyKey = getPeriodKey("daily", DateOf(0))
  /\ monthlyKey = getPeriodKey("monthly", DateOf(0))
  /\ storage \in InitialStorage
  /\ effects = {"load", "persist"}
  /\ goalsQueue = <<>>
  /\ isLoadedQueue = <<>>
  /\ baseState = <<>>
  /\ now = 0
  /\ nextId = 1
  /\ stored0 = storage
  /\ deleted = {}
  /\ lastOp = "none"

\* What running the pending effects leaves in storage: the load effect only
\* reads it, the persist effect is the one of the last render.
StorageAfterEffects ==
  IF "persist" \in effects THEN PersistEffect(goals, isLoaded, storage) ELSE storage

\* React runs the pending effects of the last render, in the order of the code.
FlushPassiveEffects ==
  /\ effects # {}
  /\ storage' = StorageAfterEffects
  /\ IF "load" \in effects
     THEN /\ goalsQueue' = goalsQueue \o LoadEffect(storage).setGoals
          /\ isLoadedQueue' = isLoadedQueue \o LoadEffect(storage).setIsLoaded
     ELSE UNCHANGED <<goalsQueue, isLoadedQueue>>
  /\ effects' = {}
  /\ UNCHANGED <<goals, isLoaded, dailyKey, monthlyKey, baseState, now, nextId,
                 stored0, deleted, lastOp>>

\* React renders the updates the load effect queued and those queued behind
\* them; goals or isLoaded changed, so the persist effect is scheduled.
Render ==
  /\ effects = {}
  /\ goalsQueue # <<>> \/ isLoadedQueue # <<>>
  /\ goals' = ApplyAll(goalsQueue, baseState, DateOf(now))
  /\ isLoaded' = IF isLoadedQueue # <<>> THEN isLoadedQueue[Len(isLoadedQueue)] ELSE isLoaded
  /\ baseState' = goals'
  /\ goalsQueue' = <<>>
  /\ isLoadedQueue' = <<>>
  /\ effects' = {"persist"}
  /\ UNCHANGED <<dailyKey, monthlyKey, storage, now, nextId, stored0, deleted, lastOp>>

\* A handler called setGoals(u) in a click or submit event.  React first runs
\* the pending effects, then renders the event's update at once and runs the
\* persist effect of that render; the updates an effect queued are of lower
\* priority, wait for Render, and are then run in the order they were queued,
\* the event's update among them.
Dispatch(u) ==
  LET next == Apply(u, goals, DateOf(now))
  IN /\ Len(goalsQueue) < MaxQueue
     /\ goals' = next
     /\ storage' = PersistEffect(next, isLoaded, StorageAfterEffects)
     /\ effects' = {}
     /\ IF "load" \in effects
        THEN /\ baseState' = next
             /\ goalsQueue' = LoadEffect(storage).setGoals
             /\ isLoadedQueue' = LoadEffect(storage).setIsLoaded
        ELSE IF goalsQueue # <<>>
        THEN /\ goalsQueue' = Append(goalsQueue, u)
             /\ UNCHANGED <<baseState, isLoadedQueue>>
        ELSE /\ baseState' = next
             /\ UNCHANGED <<goalsQueue, isLoadedQueue>>
     /\ UNCHANGED <<isLoaded, dailyKey, monthlyKey, now, stored0>>

handleSubmit(form) ==
  IF trim(form.title) = <<>>
  THEN /\ lastOp' = "rejected"
       /\ UNCHANGED <<goals, isLoaded, dailyKey, monthlyKey, storage, effects,
                      goalsQueue, isLoadedQueue, baseState, now, nextId,
                      stored0, deleted>>
  ELSE /\ nextId <= MaxCreates
       /\ Dispatch(Prepend(NextGoal(form, nextId, DateOf(now))))
       /\ nextId' = nextId + 1
       /\ lastOp' = "submit"
       /\ UNCHANGED deleted

HasId(list, goalId) == \E i \in 1..Len(list) : list[i].id = goalId

GoalWithId(list, goalId) == list[CHOOSE i \in 1..Len(list) : list[i].id = goalId]

\* The count updateGoalCount reads for goalId on day `date` (0 without the goal).
CurrentCount(list, goalId, date) ==
  IF HasId(list, goalId)
  THEN getCountForPeriod(GoalWithId(list, goalId),
                         getPeriodKey(GoalWithId(list, goalId).type, date))
  ELSE 0

updateGoalCount(goalId, delta, cap) ==
  /\ delta = 1 => CurrentCount(goals, goalId, DateOf(now)) < cap
  /\ Dispatch(Count(goalId, delta))
  /\ lastOp' = IF HasId(goals, goalId) THEN "count" ELSE "count-miss"
  /\ UNCHANGED <<nextId, deleted>>

deleteGoal(goalId) ==
  /\ Dispatch(Remove(goalId))
  /\ deleted' = IF HasId(goals, goalId) THEN deleted \cup {goalId} ELSE deleted
  /\ lastOp' = IF HasId(goals, goalId) THEN "remove" ELSE "remove-miss"
  /\ UNCHANGED nextId

\* Midnight passes.
Tick ==
  /\ now < MaxDay
  /\ now' = now + 1
  /\ UNCHANGED <<goals, isLoaded, dailyKey, monthlyKey, storage, effects,
                 goalsQueue, isLoadedQueue, baseState, nextId, stored0, deleted, lastOp>>

\* The ids the page offers: those of the goals it shows, and 0, which no goal has.
OfferedIds == {goals[i].id : i \in 1..Len(goals)} \cup {0}

Next ==
  \/ FlushPassiveEffects
  \/ Render
  \/ \E form \in FormInputs : handleSubmit(form)
  \/ \E goalId \in OfferedIds, delta \in {-1, 1} : updateGoalCount(goalId, delta, MaxCount)
  \/ \E goalId \in OfferedIds : deleteGoal(goalId)
  \/ Tick

Spec == Init /\ [][Next]_vars

(***************************************************************************)
(* What the page shows.                                                    *)
(***************************************************************************)
\* The periodKey GoalColumn passes to the cards of a type.
ShownKey(type) ==
  IF type = "daily" THEN dailyKey
  ELSE IF type = "monthly" THEN monthlyKey
  ELSE AllKey

\* The key updateGoalCount writes today.
WrittenKey(type) == getPeriodKey(type, DateOf(now))

\* The goals the text in storage holds, when it is an array.
StoredItems(stored) ==
  IF stored.t = "string" /\ stored.doc.t = "array" THEN stored.doc.items ELSE <<>>

SameGoal(a, b) == \A k \in GoalKeys : Field(a, k) = Field(b, k)

SameList(a, b) == Len(a) = Len(b) /\ \A i \in 1..Len(a) : SameGoal(a[i], b[i])

IsCreated(goal) == goal.id \in 1..(nextId - 1)

StoredGoalsKept ==
  \A i \in 1..Len(StoredItems(stored0)) :
    \/ StoredItems(stored0)[i].id \in deleted
    \/ HasId(StoredItems(storage), StoredItems(stored0)[i].id)

(***************************************************************************)
(* C1.  As claimed: until the load has completed (isLoaded is set) storage *)
(* is not written and no Create, Adjust or Delete is applied to the list,  *)
(* and the goals a valid stored list held stay in storage until they are   *)
(* deleted.                                                                *)
(***************************************************************************)
C1_NoMutationBeforeLoad ==
  /\ ~isLoaded => storage = stored0
  /\ ~isLoaded => goals = <<>>
  /\ StoredGoalsKept

\* C1, amended: until isLoaded is set storage is not written, and the goals a
\* valid stored list held stay in storage until they are deleted; the list
\* itself may change before (the handlers do not wait for the load).
C1_NoWriteBeforeLoad ==
  /\ ~isLoaded => storage = stored0
  /\ StoredGoalsKept

\* A stored list was loaded under a goal created before the load was rendered,
\* and both were written back.
C1_Witness ==
  /\ Len(StoredItems(stored0)) = 1
  /\ isLoaded /\ effects = {}
  /\ storage # stored0
  /\ Len(goals) = 2 /\ HasId(goals, StoredGoal.id) /\ HasId(StoredItems(storage), StoredGoal.id)
  /\ lastOp = "submit" /\ nextId = 2

(***************************************************************************)
(* C2.  Once the load is done and the persist effect of the last render    *)
(* has run, parsing the text in storage gives the goals in memory, field   *)
(* for field.                                                              *)
(***************************************************************************)
C2_RoundTrip ==
  (isLoaded /\ effects = {}) =>
    /\ storage.t = "string"
    /\ ~JSONparse(storage.doc).threw
    /\ ArrayIsArray(JSONparse(storage.doc).value)
    /\ SameList(JSONparse(storage.doc).value.items, goals)

(***************************************************************************)
(* C3.  The count shown for a daily or monthly goal is the count under     *)
(* today's period key, the key updateGoalCount writes: past midnight it    *)
(* reads 0 until the goal is adjusted, and follows every adjustment.       *)
(***************************************************************************)
C3_ShownCountIsTodaysCount ==
  \A i \in 1..Len(goals) :
    goals[i].type \in {"daily", "monthly"} =>
      getCountForPeriod(goals[i], ShownKey(goals[i].type))
        = getCountForPeriod(goals[i], WrittenKey(goals[i].type))

(***************************************************************************)
(* C4.  Every goal handleSubmit built has targetCount absent or a positive *)
(* integer.                                                                *)
(***************************************************************************)
C4_TargetCountPositive ==
  \A i \in 1..Len(goals) :
    IsCreated(goals[i]) =>
      \/ Field(goals[i], "targetCount") = Undefined
      \/ /\ Field(goals[i], "targetCount").t = "number"
         /\ Field(goals[i], "targetCount").v > 0

Corrupt(stored) == stored.t = "string" /\ stored.doc.t \in {"invalid", "object"}

(***************************************************************************)
(* C5.  When the stored text is no JSON or no array, the load completes    *)
(* as it does without stored data: it queues no list and sets isLoaded,    *)
(* the list holds only what the user created, and the persist effect       *)
(* writes it.                                                              *)
(***************************************************************************)
C5_CorruptStorageLoadsEmpty ==
  Corrupt(stored0) =>
    /\ LoadEffect(stored0) = LoadEffect(NoItem)
    /\ "load" \notin effects => (isLoaded \/ isLoadedQueue = <<TRUE>>)
    /\ goalsQueue = <<>>
    /\ \A i \in 1..Len(goals) : IsCreated(goals[i])
    /\ (isLoaded /\ effects = {}) => storage = Item(JSONstringify(goals))

\* After a corrupt text was found the list was built up and written.
C5_Witness ==
  /\ Corrupt(stored0)
  /\ isLoaded /\ effects = {}
  /\ Len(goals) = 2
  /\ StoredItems(storage) # <<>>
  /\ lastOp = "count"

CountsNonNegative(list) ==
  \A i \in 1..Len(list) : \A k \in DOMAIN list[i].entries : list[i].entries[k] \in Nat

DecrementAtZeroStays ==
  \A goalId \in OfferedIds :
    (updateGoalCount(goalId, -1, MaxCount) /\ CurrentCount(goals, goalId, DateOf(now)) = 0)
      => CurrentCount(goals', goalId, DateOf(now)) = 0

(***************************************************************************)
(* C6.  Every count in every goal's entries is a non-negative integer,     *)
(* and updateGoalCount(id, -1) on a goal whose count for today is 0        *)
(* (entry absent or present) leaves that count at 0.                       *)
(***************************************************************************)
C6_CountsNeverNegative ==
  /\ [](CountsNonNegative(goals) /\ CountsNonNegative(StoredItems(storage)))
  /\ [][DecrementAtZeroStays]_vars

\* A goal never checked in today was decremented: its entry is there, at 0.
C6_Witness ==
  /\ lastOp = "count"
  /\ \E i \in 1..Len(goals) :
       /\ WrittenKey(goals[i].type) \in DOMAIN goals[i].entries
       /\ goals[i].entries[WrittenKey(goals[i].type)] = 0
       /\ HasId(StoredItems(storage), goals[i].id)

OnlyEntryChanged(before, after, periodKey) ==
  /\ DOMAIN after = DOMAIN before
  /\ \A k \in GoalKeys \ {"entries"} : Field(after, k) = Field(before, k)
  /\ DOMAIN after.entries = DOMAIN before.entries \cup {periodKey}
  /\ \A k \in DOMAIN before.entries : k # periodKey => after.entries[k] = before.entries[k]

CountFrame(goalId) ==
  /\ Len(goals') = Len(goals)
  /\ \A i \in 1..Len(goals) :
       IF goals[i].id # goalId THEN goals'[i] = goals[i]
       ELSE OnlyEntryChanged(goals[i], goals'[i], WrittenKey(goals[i].type))
  /\ ~HasId(goals, goalId) => goals' = goals

(***************************************************************************)
(* C7.  updateGoalCount(goalId, delta) changes only the entry under        *)
(* today's period key of the goal with that id: the other goals, the other *)
(* entries and the other fields of that goal, the length and the order of  *)
(* the list are unchanged; without such a goal the list is unchanged.      *)
(***************************************************************************)
C7_CountChangesOneEntry ==
  [][\A goalId \in OfferedIds, delta \in {-1, 1} :
       updateGoalCount(goalId, delta, MaxCount) => CountFrame(goalId)]_vars

\* One of two goals was checked in: it has an entry, the other has none.
C7_Witness ==
  /\ lastOp = "count"
  /\ Len(goals) = 2
  /\ goals[1].entries = <<>>
  /\ goals[2].entries # <<>>
  /\ IsCreated(goals[2])

SubmitEffect(form) ==
  IF \A i \in 1..Len(form.title) : IsSpace(form.title[i])
  THEN goals' = goals /\ storage' = storage
  ELSE /\ Len(goals') = Len(goals) + 1
       /\ \A i \in 1..Len(goals) : goals'[i + 1] = goals[i]
       /\ goals'[1].entries = <<>>
       /\ goals'[1].title = trim(form.title)
       /\ goals'[1].title # <<>>
       /\ ~IsSpace(goals'[1].title[1])
       /\ ~IsSpace(goals'[1].title[Len(goals'[1].title)])
       /\ ~HasId(goals, goals'[1].id)

(***************************************************************************)
(* C8.  handleSubmit with a title that is empty or white space leaves the  *)
(* list and storage unchanged, whatever the other fields hold; with any    *)
(* other title it puts one goal, with no entries and the trimmed title, in *)
(* front of the goals there were.                                          *)
(***************************************************************************)
C8_SubmitAddsOneGoalOrNothing ==
  [][\A form \in FormInputs : handleSubmit(form) => SubmitEffect(form)]_vars

\* A form with a blank title was submitted to a list that was written before.
C8_Witness ==
  /\ lastOp = "rejected"
  /\ isLoaded /\ effects = {}
  /\ Len(goals) = 2
  /\ SameList(StoredItems(storage), goals)

RemoveFrame(goalId) ==
  /\ goals' = SelectSeq(goals, LAMBDA g : g.id # goalId)
  /\ ~HasId(goals', goalId)
  /\ \A i \in 1..Len(goals) : goals[i].id # goalId => HasId(goals', goals[i].id)
  /\ ~HasId(goals, goalId) => goals' = goals

(***************************************************************************)
(* C9.  deleteGoal(goalId) removes the goal with that id and leaves the    *)
(* other goals and their order; with no such goal the list is unchanged.   *)
(***************************************************************************)
C9_RemoveTakesOneGoal ==
  [][\A goalId \in OfferedIds : deleteGoal(goalId) => RemoveFrame(goalId)]_vars

\* The first of two goals was deleted, the second is left.
C9_Witness ==
  /\ lastOp = "remove"
  /\ deleted = {2}
  /\ Len(goals) = 1 /\ goals[1].id = 1

(***************************************************************************)
(* One card: a page whose list holds the one goal a submit built, checked  *)
(* in and out on the day it was made.                                      *)
(***************************************************************************)
CardForms ==
  { Form(Run, "daily", <<"4">>, <<>>),
    Form(Run, "daily", <<"4", "0">>, <<>>),
    Form(Run, "daily", <<"2", "0", "0">>, <<>>),
    Form(Run, "monthly", <<>>, DueText),
    Form(Run, "anytime", <<>>, <<>>),
    Form(Run, "anytime", <<"-", "3">>, <<>>) }

InitCard ==
  /\ \E form \in CardForms : goals = <<NextGoal(form, 1, DateOf(0))>>
  /\ isLoaded = TRUE
  /\ dailyKey = getPeriodKey("daily", DateOf(0))
  /\ monthlyKey = getPeriodKey("monthly", DateOf(0))
  /\ storage = PersistEffect(goals, isLoaded, NoItem)
  /\ effects = {}
  /\ goalsQueue = <<>>
  /\ isLoadedQueue = <<>>
  /\ baseState = goals
  /\ now = 0
  /\ nextId = 2
  /\ stored0 = NoItem
  /\ deleted = {}
  /\ lastOp = "submit"

NextCard ==
  \E delta \in {-1, 1} : updateGoalCount(1, delta, MaxClicks)

SpecCard == InitCard /\ [][NextCard]_vars

\* 100 * c / t rounded to the nearest integer, a tie going up, in exact arithmetic
ExactPercent(c, t) ==
  IF t > 0 THEN (200 * c + t) \div (2 * t)
  ELSE ((0 - t) - 200 * c) \div (2 * (0 - t))

(***************************************************************************)
(* C10.  For a goal with a target t (targetCount if set, else 1 for daily  *)
(* and monthly goals) and the count c of its period, the card shows it     *)
(* complete exactly when c >= t, and its progress is                       *)
(* min(100, round(100 * c / t)).                                           *)
(***************************************************************************)
C10_ProgressFormula ==
  \A i \in 1..Len(goals) :
    LET goal == goals[i]
        periodKey == ShownKey(goal.type)
        c == getCountForPeriod(goal, periodKey)
        target == getTargetForGoal(goal)
    IN (Truthy(target) /\ target.t = "number") =>
         /\ isGoalComplete(goal, periodKey) <=> c >= target.v
         /\ progress(goal, periodKey) = Min(100, ExactPercent(c, target.v))

(***************************************************************************)
(* C11.  For an anytime goal with no targetCount the card shows the goal   *)
(* complete exactly when its count under "all" is 1 or more, and renders   *)
(* no progress figure, whatever the count.                                 *)
(***************************************************************************)
C11_AnytimeWithoutTarget ==
  \A i \in 1..Len(goals) :
    (goals[i].type = "anytime" /\ Field(goals[i], "targetCount") = Undefined) =>
      /\ ShownKey(goals[i].type) = AllKey
      /\ getCountForPeriod(goals[i], AllKey) = 0 => ~isGoalComplete(goals[i], AllKey)
      /\ getCountForPeriod(goals[i], AllKey) >= 1 => isGoalComplete(goals[i], AllKey)
      /\ ProgressBar(goals[i], AllKey) = Null
      /\ ProgressBar(goals[i], AllKey).t # "number"

\* An anytime goal without targetCount was checked in more than once.
C11_Witness ==
  /\ lastOp = "count"
  /\ goals[1].type = "anytime"
  /\ Field(goals[1], "targetCount") = Undefined
  /\ getCountForPeriod(goals[1], AllKey) = 2
  /\ isGoalComplete(goals[1], AllKey)

(***************************************************************************)
(* C13.  A card whose goal has a target shows 100% of target only when it  *)
(* shows the goal complete, for every target and count.                    *)
(***************************************************************************)
C13_FullOnlyIfComplete ==
  \A i \in 1..Len(goals) :
    LET goal == goals[i]
        periodKey == ShownKey(goal.type)
    IN (ProgressBar(goal, periodKey) = Num(100)) => isGoalComplete(goal, periodKey)

(***************************************************************************)
(* The statistics of the page, and a page whose list holds up to MaxGoals  *)
(* goals without targetCount, of the three types in turn, which the user   *)
(* checks in from the oldest on and checks out from the newest checked on. *)
(***************************************************************************)
dailyGoals == SelectSeq(goals, LAMBDA goal : goal.type = "daily")
monthlyGoals == SelectSeq(goals, LAMBDA goal : goal.type = "monthly")
anytimeGoals == SelectSeq(goals, LAMBDA goal : goal.type = "anytime")

stats ==
  LET dailyDone == Len(SelectSeq(dailyGoals, LAMBDA goal : isGoalComplete(goal, dailyKey)))
      monthlyDone == Len(SelectSeq(monthlyGoals, LAMBDA goal : isGoalComplete(goal, monthlyKey)))
      anytimeDone == Len(SelectSeq(anytimeGoals, LAMBDA goal : isGoalComplete(goal, AllKey)))
      totalGoals == Len(goals)
      completedGoals == dailyDone + monthlyDone + anytimeDone
      completionRate == IF totalGoals # 0 THEN RoundedPercent(completedGoals, totalGoals) ELSE 0
  IN [totalGoals |-> totalGoals, dailyDone |-> dailyDone, monthlyDone |-> monthlyDone,
      anytimeDone |-> anytimeDone, completionRate |-> completionRate]

StatsForm(id) ==
  IF id % 3 = 1 THEN Form(Run, "daily", <<>>, <<>>)
  ELSE IF id % 3 = 2 THEN Form(Run, "monthly", <<>>, DueText)
  ELSE Form(Run, "anytime", <<>>, <<>>)

InitStats ==
  /\ \E n \in 0..MaxGoals :
       goals = [i \in 1..n |-> NextGoal(StatsForm(n + 1 - i), n + 1 - i, DateOf(0))]
  /\ isLoaded = TRUE
  /\ dailyKey = getPeriodKey("daily", DateOf(0))
  /\ monthlyKey = getPeriodKey("monthly", DateOf(0))
  /\ storage = PersistEffect(goals, isLoaded, NoItem)
  /\ effects = {}
  /\ goalsQueue = <<>>
  /\ isLoadedQueue = <<>>
  /\ baseState = goals
  /\ now = 0
  /\ nextId = Len(goals) + 1
  /\ stored0 = NoItem
  /\ deleted = {}
  /\ lastOp = "submit"

Checked(goalId) == CurrentCount(goals, goalId, DateOf(now)) > 0

NextStats ==
  \E goalId \in 1..Len(goals), delta \in {-1, 1} :
    /\ delta = 1 => ~Checked(goalId) /\ \A id \in 1..(goalId - 1) : Checked(id)
    /\ delta = -1 => Checked(goalId) /\ \A id \in (goalId + 1)..Len(goals) : ~Checked(id)
    /\ updateGoalCount(goalId, delta, MaxCount)

SpecStats == InitStats /\ [][NextStats]_vars

\* The number of goals complete under today's key of their type, each counted once
CompleteToday == Cardinality({i \in 1..Len(goals) : isGoalComplete(goals[i], WrittenKey(goals[i].type))})

(***************************************************************************)
(* C12.  completionRate is an integer from 0 to 100, equal to              *)
(* round(100 * completedGoals / totalGoals) with completedGoals the number *)
(* of goals complete under the current period key of their type, each      *)
(* counted once, and 0 for an empty list.                                  *)
(***************************************************************************)
C12_CompletionRate ==
  /\ stats.completionRate \in 0..100
  /\ stats.totalGoals = Len(goals)
  /\ goals = <<>> => stats.completionRate = 0
  /\ goals # <<>> => stats.completionRate = ExactPercent(CompleteToday, Len(goals))

====
